---- MODULE Spec2Model ----
(***************************************************************************)
(* sled-bincode: a typed layer over the sled storage engine.  Keys and     *)
(* values are encoded with bincode (standard configuration) into byte      *)
(* strings, which are all the engine ever sees.  The model keeps the       *)
(* engine's partitions as maps from byte strings to byte strings and the   *)
(* typed layer as operators over them.                                     *)
(***************************************************************************)
EXTENDS Integers, Sequences, FiniteSets, TLC

VARIABLES
    trees,      \* engine state: tree id -> (encoded key -> encoded value)
    last,       \* what the last call on a Tree returned to its caller
    iter,       \* the open Iter of the collection, or closed
    batch,      \* the Batch being built: staged raw operations
    tx,         \* per caller: the state of its transaction call
    serial,     \* history: the typed contents the successful writes and the committed
                \* transactions amount to, applied in the order they happened
    popped      \* history: what pop_min / pop_max returned, and to whom, since
                \* an entry was last stored

vars == <<trees, last, iter, batch, tx, serial, popped>>

---------------------------------------------------------------------------
\* Bounds of the model.

NTrees == 3        \* collections opened on the database
NKeys == 3         \* typed keys in use
NVals == 2         \* typed values in use
NTx == 2           \* concurrent callers of transaction
MaxOps == 3        \* view operations in one callback invocation
MaxOpsConc == 2    \* the same, when two callers run concurrently
MaxInvocations == 2 \* callback invocations of one transaction call
NTxKeys == 1       \* typed keys the transaction callbacks use
MaxBatch == 2      \* operations staged in one batch
MaxIterFail == 1   \* failed steps of one iterator
MaxOpsJoin == 2    \* view operations in one callback invocation of a wide join

\* Program constants.
INLINE_CAP == 16   \* SmallVec<[u8; 16]>
MaxArity == 7      \* impl_transactable!(A, B, C, D, E, F, G)

---------------------------------------------------------------------------
\* Typed values.  A key is a &str, a value a Person {name: &str, age: u32}
\* (tests.rs); a string is the sequence of its bytes.

Adam == <<65, 100, 97, 109>>
Jane == <<74, 97, 110, 101>>
Paul == <<80, 97, 117, 108>>
John == <<74, 111, 104, 110>>

Str(s) == [ty |-> "str", s |-> s]
Person(n, a) == [ty |-> "person", name |-> n, age |-> a]
BoundOf(kind, k) == [ty |-> "bound", kind |-> kind, key |-> k]

KeyUniverse == <<Str(Adam), Str(Paul), Str(Jane), Str(John), Str(<<>>)>>
ValUniverse == <<Person(John, 32), Person(John, 33), Person(Adam, 300), Person(Paul, 70000)>>

Keys == {KeyUniverse[i] : i \in 1..NKeys}
Vals == {ValUniverse[i] : i \in 1..NVals}
TxKeys == {KeyUniverse[i] : i \in 1..NTxKeys}
TreeIds == 1..NTrees
Callers == 1..NTx
DomainErrors == {"E1", "E2"}

\* A key of a type whose Encode implementation returns an error for it, and
\* the keys a caller may pass when such a key is among them.
Unencodable == [ty |-> "unencodable"]
KeysOrUnencodable == Keys \cup {Unencodable}
TxKeysOrUnencodable == TxKeys \cup {Unencodable}
ValsOrUnencodable == Vals \cup {Unencodable}

None == <<>>
Some(x) == <<x>>

OkR(x) == [ok |-> TRUE, val |-> x]
ErrR(e) == [ok |-> FALSE, err |-> e]

---------------------------------------------------------------------------
\* The codec: bincode under config::standard() (little endian, variable
\* length integers).

\* An unsigned integer below 2^32 as a varint.  The integers of the model
\* are 32 bits wide and signed: a u32 of 2^31 and above is kept as the
\* number less 2^32, which has the same four bytes.
VarintEncode(u) ==
    IF u < 0 THEN <<252, u % 256, (u \div 256) % 256, (u \div 65536) % 256,
                    256 + (u \div 16777216)>>
    ELSE IF u < 251 THEN <<u>>
    ELSE IF u < 65536 THEN <<251, u % 256, u \div 256>>
    ELSE <<252, u % 256, (u \div 256) % 256, (u \div 65536) % 256, u \div 16777216>>

\* The bytes bincode writes for a typed value: a &str is its length and its
\* bytes, a struct its fields in order, a Bound its variant index and then
\* the bounded value if there is one.
RECURSIVE EncodeBytes(_)
EncodeBytes(x) ==
    CASE x.ty = "str" -> VarintEncode(Len(x.s)) \o x.s
      [] x.ty = "person" -> EncodeBytes(Str(x.name)) \o VarintEncode(x.age)
      [] x.ty = "bound" ->
            IF x.kind = "Unbounded" THEN VarintEncode(0)
            ELSE IF x.kind = "Included" THEN VarintEncode(1) \o EncodeBytes(x.key)
            ELSE VarintEncode(2) \o EncodeBytes(x.key)

\* Whether bincode can encode the value at all: a Bound encodes when it is
\* unbounded or the value it bounds encodes.
RECURSIVE Encodable(_)
Encodable(x) ==
    CASE x.ty \in {"str", "person"} -> TRUE
      [] x.ty = "bound" -> x.kind = "Unbounded" \/ Encodable(x.key)
      [] OTHER -> FALSE

\* Buffer(SmallVec<[u8; 16]>): the bytes, and whether they left the inline
\* buffer for the heap.
Buffer(bytes) == [bytes |-> bytes, spilled |-> Len(bytes) > INLINE_CAP]

\* fn encode: Ok(Buffer) or Err(EncodeError).
encode(x) ==
    IF Encodable(x) THEN OkR(Buffer(EncodeBytes(x))) ELSE ErrR("EncodeError")

\* impl From<Buffer> for IVec: the same bytes on either branch.
IVecFromInlineOnly(buf) ==
    IF buf.spilled THEN SubSeq(buf.bytes, 1, INLINE_CAP) ELSE buf.bytes
IVecFrom(buf) == IF buf.spilled THEN buf.bytes ELSE buf.bytes

\* impl AsRef<[u8]> for Buffer
AsRef(buf) == buf.bytes

\* A length of 2^31 and above: longer than every buffer of the model.
Huge == 2147483647

\* Reading a varint at the head of buf as an unsigned integer of w bits (32
\* for a u32, 64 for a length): <<value, bytes used>>, or <<>> when the input
\* is truncated or the discriminant stands for an integer wider than w.  A
\* value need not be in its shortest form.  A u32 of 2^31 and above is given
\* as the number less 2^32, a length of 2^31 and above as Huge.
VarintDecode(buf, w) ==
    IF Len(buf) = 0 THEN <<>>
    ELSE IF buf[1] < 251 THEN <<buf[1], 1>>
    ELSE IF buf[1] = 251 THEN
        IF Len(buf) < 3 THEN <<>> ELSE <<buf[2] + 256 * buf[3], 3>>
    ELSE IF buf[1] = 252 THEN
        IF Len(buf) < 5 THEN <<>>
        ELSE IF buf[5] < 128
            THEN <<buf[2] + 256 * buf[3] + 65536 * buf[4] + 16777216 * buf[5], 5>>
        ELSE IF w = 32
            THEN <<buf[2] + 256 * buf[3] + 65536 * buf[4] + 16777216 * (buf[5] - 256), 5>>
        ELSE <<Huge, 5>>
    ELSE IF buf[1] = 253 /\ w = 64 THEN
        IF Len(buf) < 9 THEN <<>>
        ELSE IF buf[5] < 128 /\ \A i \in 6..9 : buf[i] = 0
            THEN <<buf[2] + 256 * buf[3] + 65536 * buf[4] + 16777216 * buf[5], 9>>
        ELSE <<Huge, 9>>
    ELSE <<>>

\* Whether a byte string is well-formed UTF-8.
RECURSIVE ValidUtf8(_)
ValidUtf8(s) ==
    IF s = <<>> THEN TRUE
    ELSE LET b == s[1]
             n == IF b < 128 THEN 1
                  ELSE IF b \in 194..223 THEN 2
                  ELSE IF b \in 224..239 THEN 3
                  ELSE IF b \in 240..244 THEN 4
                  ELSE 0 IN
         IF n = 0 \/ Len(s) < n THEN FALSE
         ELSE /\ \A i \in 2..n : s[i] \in 128..191
              /\ b = 224 => s[2] >= 160
              /\ b = 237 => s[2] <= 159
              /\ b = 240 => s[2] >= 144
              /\ b = 244 => s[2] <= 143
              /\ ValidUtf8(SubSeq(s, n + 1, Len(s)))

\* Reading a &str at the head of buf: <<bytes of the string, bytes used>> or
\* <<>> (the length cannot be read, the bytes are not all there, or they are
\* not UTF-8).
StrDecode(buf) ==
    LET n == VarintDecode(buf, 64) IN
    IF n = <<>> THEN <<>>
    ELSE IF n[1] > Len(buf) - n[2] THEN <<>>
    ELSE LET s == SubSeq(buf, n[2] + 1, n[2] + n[1]) IN
         IF ~ValidUtf8(s) THEN <<>>
         ELSE <<s, n[2] + n[1]>>

\* fn decode: decode_from_slice for the type asked for; bytes left over after
\* the value are ignored (the count of bytes read is dropped).
decode(buf, ty) ==
    IF ty = "str" THEN
        LET s == StrDecode(buf) IN
        IF s = <<>> THEN ErrR("DecodeError") ELSE OkR(Str(s[1]))
    ELSE
        LET s == StrDecode(buf) IN
        IF s = <<>> THEN ErrR("DecodeError")
        ELSE LET a == VarintDecode(SubSeq(buf, s[2] + 1, Len(buf)), 32) IN
             IF a = <<>> THEN ErrR("DecodeError")
             ELSE OkR(Person(s[1], a[1]))

---------------------------------------------------------------------------
\* The engine's ordered byte-keyed partition (sled::Tree), as the typed
\* layer uses it.

\* Lexicographic order of byte strings.
RECURSIVE LexLess(_, _)
LexLess(a, b) ==
    IF Len(b) = 0 THEN FALSE
    ELSE IF Len(a) = 0 THEN TRUE
    ELSE IF a[1] < b[1] THEN TRUE
    ELSE IF a[1] > b[1] THEN FALSE
    ELSE LexLess(Tail(a), Tail(b))

LexLeq(a, b) == a = b \/ LexLess(a, b)

EmptyTree == [k \in {} |-> <<>>]

RawGet(t, k) == IF k \in DOMAIN t THEN Some(t[k]) ELSE None

RawInsert(t, k, v) == [x \in (DOMAIN t) \cup {k} |-> IF x = k THEN v ELSE t[x]]

RawRemove(t, k) == [x \in (DOMAIN t) \ {k} |-> t[x]]

---------------------------------------------------------------------------
\* The engine's transaction over several partitions, as the typed layer
\* uses it: every attempt gets one write overlay per joined partition; a
\* read looks in the overlay first and then in the partition; a successful
\* attempt applies all its overlays at once; an attempt that overlaps a
\* commit to a partition it joined is in conflict and cannot commit.

\* The overlay of one partition: encoded key -> Some(value) or None (removed).
EmptyView == [k \in {} |-> None]

TxRawGet(view, t, k) == IF k \in DOMAIN view THEN view[k] ELSE RawGet(t, k)

TxRawInsert(view, k, v) == [x \in (DOMAIN view) \cup {k} |-> IF x = k THEN Some(v) ELSE view[x]]

TxRawRemove(view, k) == [x \in (DOMAIN view) \cup {k} |-> IF x = k THEN None ELSE view[x]]

\* One partition after its overlay is applied.
CommitView(t, view) ==
    [x \in ((DOMAIN t) \cup {k \in DOMAIN view : view[k] # None})
               \ {k \in DOMAIN view : view[k] = None}
        |-> IF x \in DOMAIN view THEN view[x][1] ELSE t[x]]

\* All partitions after the overlays of an attempt are applied.
CommitAll(ts, views) ==
    [t \in DOMAIN ts |-> IF t \in DOMAIN views THEN CommitView(ts[t], views[t]) ELSE ts[t]]

\* The partitions an attempt's commit changes.
Changed(ts, views) == {t \in DOMAIN views : CommitView(ts[t], views[t]) # ts[t]}

---------------------------------------------------------------------------
\* The typed layer's transactions: Tree::transaction and the tuple joins of
\* impl_transactable!, and the TransactionalTree views they hand the callback.

\* The joins a caller may ask for: one collection (Tree::transaction), and
\* tuples of two up to all the collections, in an order of the caller's choice.
Joins == {<<1>>, <<2, 1>>, [i \in 1..NTrees |-> i]}
JoinsConc(c) == IF c = 1 THEN {<<1>>} ELSE {<<2, 1>>}

\* The partition the i-th view of the callback works on: the closure wraps
\* the i-th raw view, which the engine made for the i-th tree of the tuple.
ViewTargetFirst(join, i) == join[1]
ViewTargetReversed(join, i) == join[Len(join) + 1 - i]
ViewTarget(join, i) == join[i]

\* The views of a fresh attempt: one TransactionalTree::new per joined tree.
FreshViews(join) == [t \in {join[i] : i \in 1..Len(join)} |-> EmptyView]

\* TransactionalTree::insert / remove / get on a view over partition t.
\* A failed encoding panics (expect).  Otherwise: the view afterwards and
\* the Option<Value> returned, as raw bytes.
TransactionalTreeInsertSwapped(view, t, key, val) ==
    LET k == encode(key)
        v == encode(val) IN
    IF ~k.ok \/ ~v.ok THEN [panic |-> TRUE, view |-> view, ret |-> None]
    ELSE [panic |-> FALSE,
          view |-> TxRawInsert(view, IVecFrom(v.val), IVecFrom(k.val)),
          ret |-> TxRawGet(view, t, IVecFrom(v.val))]
TransactionalTreeInsert(view, t, key, val) ==
    LET k == encode(key)
        v == encode(val) IN
    IF ~k.ok \/ ~v.ok THEN [panic |-> TRUE, view |-> view, ret |-> None]
    ELSE [panic |-> FALSE,
          view |-> TxRawInsert(view, IVecFrom(k.val), IVecFrom(v.val)),
          ret |-> TxRawGet(view, t, IVecFrom(k.val))]

TransactionalTreeRemoveErrAsNone(view, t, key) ==
    LET k == encode(key) IN
    IF ~k.ok THEN [panic |-> FALSE, view |-> view, ret |-> None]
    ELSE [panic |-> FALSE,
          view |-> TxRawRemove(view, IVecFrom(k.val)),
          ret |-> TxRawGet(view, t, IVecFrom(k.val))]
TransactionalTreeRemove(view, t, key) ==
    LET k == encode(key) IN
    IF ~k.ok THEN [panic |-> TRUE, view |-> view, ret |-> None]
    ELSE [panic |-> FALSE,
          view |-> TxRawRemove(view, IVecFrom(k.val)),
          ret |-> TxRawGet(view, t, IVecFrom(k.val))]

TransactionalTreeGetUnprefixed(view, t, key) ==
    IF ~encode(key).ok THEN [panic |-> TRUE, view |-> view, ret |-> None]
    ELSE [panic |-> FALSE, view |-> view, ret |-> TxRawGet(view, t, key.s)]
TransactionalTreeGet(view, t, key) ==
    LET k == encode(key) IN
    IF ~k.ok THEN [panic |-> TRUE, view |-> view, ret |-> None]
    ELSE [panic |-> FALSE, view |-> view, ret |-> TxRawGet(view, t, IVecFrom(k.val))]

\* Value::value on what a view operation returned.
ValueOf(ret) == IF ret = None THEN None ELSE Some(decode(ret[1], "person"))

\* A caller's transaction call.  pc: idle, running (inside a callback
\* invocation), done or panicked; join: the trees of the tuple; views: the overlays of
\* the running attempt; invocations: how often the callback has been called;
\* stale: the attempt overlaps a commit to a tree it joined; ret: what the
\* callback returned; result: what the call returned.  History: log, the
\* typed operations of the running invocation and what each returned (the
\* operations of an applied batch one by one); pre,
\* the trees when the call was made (kept when callers run one at a time); replayed, whether the committed
\* invocation read what it reads in the serial run; nops, the number of
\* operations the last invocation had made when it returned.
IdleTx == [pc |-> "idle", join |-> <<>>, views |-> <<>>, log |-> <<>>, pre |-> <<>>,
           invocations |-> 0, stale |-> FALSE, ret |-> None, result |-> None,
           nops |-> 0, replayed |-> TRUE]

\* What the committed invocations amount to when run one after the other:
\* the callback's typed operations, in the order it made them, on typed
\* maps, one per collection in the order of the join.  ok says that every
\* operation returned the encoding of what it returns in that serial run.
RECURSIVE Replay(_, _, _)
Replay(store, join, log) ==
    IF log = <<>> THEN [store |-> store, ok |-> TRUE]
    ELSE LET e == Head(log)
             t == join[e.view]
             cur == RawGet(store[t], e.key)
             st == IF e.op = "insert" THEN [store EXCEPT ![t] = RawInsert(@, e.key, e.val)]
                   ELSE IF e.op = "remove" THEN [store EXCEPT ![t] = RawRemove(@, e.key)]
                   ELSE store
             rest == Replay(st, join, Tail(log)) IN
         [store |-> rest.store,
          ok |-> rest.ok /\ e.ret = IF cur = None THEN None ELSE Some(EncodeBytes(cur[1]))]

Init ==
    /\ trees = [t \in TreeIds |-> EmptyTree]
    /\ last = None
    /\ iter = None
    /\ batch = <<>>
    /\ tx = [c \in Callers |-> IdleTx]
    /\ serial = [t \in TreeIds |-> EmptyTree]
    /\ popped = <<>>

\* A panic in an operation of a view unwinds through the callback, the
\* closure and the engine's transaction loop: the attempt's overlays are
\* dropped with it, nothing is returned to the callback or by the call, and
\* the loop does not run again.  what: the operation that panicked.
EngineUnwind(t, what) ==
    [t EXCEPT !.pc = "panicked", !.views = <<>>, !.pre = <<>>, !.stale = FALSE,
              !.nops = Len(t.log), !.result = <<"Panic">> \o what]

\* The caller calls transaction on a join: the engine starts the first
\* attempt and the closure wraps its raw views.
TxCall(c, join, keepPre) ==
    /\ tx[c].pc \in {"idle", "done"}
    /\ tx' = [tx EXCEPT ![c] = [IdleTx EXCEPT !.pc = "running", !.join = join,
                                              !.views = FreshViews(join),
                                              !.pre = IF keepPre THEN trees ELSE <<>>,
                                              !.invocations = 1]]
    /\ UNCHANGED <<trees, last, iter, batch, serial, popped>>

\* The callback inserts through its i-th view.
TxInsert(c, i, key, val, maxOps) ==
    /\ tx[c].pc = "running"
    /\ Len(tx[c].log) < maxOps
    /\ i \in 1..Len(tx[c].join)
    /\ LET t == ViewTarget(tx[c].join, i)
           r == TransactionalTreeInsert(tx[c].views[t], trees[t], key, val) IN
       tx' = IF r.panic THEN [tx EXCEPT ![c] = EngineUnwind(@, <<"insert", i, key, val>>)]
             ELSE [tx EXCEPT ![c].views[t] = r.view,
                             ![c].log = Append(@, [op |-> "insert", view |-> i, key |-> key,
                                                   val |-> val, ret |-> r.ret])]
    /\ UNCHANGED <<trees, last, iter, batch, serial, popped>>

\* The callback removes through its i-th view.
TxRemove(c, i, key, maxOps) ==
    /\ tx[c].pc = "running"
    /\ Len(tx[c].log) < maxOps
    /\ i \in 1..Len(tx[c].join)
    /\ LET t == ViewTarget(tx[c].join, i)
           r == TransactionalTreeRemove(tx[c].views[t], trees[t], key) IN
       tx' = IF r.panic THEN [tx EXCEPT ![c] = EngineUnwind(@, <<"remove", i, key, None>>)]
             ELSE [tx EXCEPT ![c].views[t] = r.view,
                             ![c].log = Append(@, [op |-> "remove", view |-> i, key |-> key,
                                                   val |-> None, ret |-> r.ret])]
    /\ UNCHANGED <<trees, last, iter, batch, serial, popped>>

\* The callback reads through its i-th view.
TxGet(c, i, key, maxOps) ==
    /\ tx[c].pc = "running"
    /\ Len(tx[c].log) < maxOps
    /\ i \in 1..Len(tx[c].join)
    /\ LET t == ViewTarget(tx[c].join, i)
           r == TransactionalTreeGet(tx[c].views[t], trees[t], key) IN
       tx' = IF r.panic THEN [tx EXCEPT ![c] = EngineUnwind(@, <<"get", i, key, None>>)]
             ELSE [tx EXCEPT ![c].log = Append(@, [op |-> "get", view |-> i, key |-> key,
                                                   val |-> None, ret |-> r.ret])]
    /\ UNCHANGED <<trees, last, iter, batch, serial, popped>>

\* The engine commits the attempt: all overlays are applied together, and
\* the attempts of other callers that joined a partition this changes are
\* now in conflict.
EngineCommit(c, r) ==
    LET ch == Changed(trees, tx[c].views)
        rp == Replay(serial, tx[c].join, tx[c].log) IN
    /\ trees' = CommitAll(trees, tx[c].views)
    /\ serial' = rp.store
    /\ popped' = <<>>
    /\ tx' = [d \in Callers |->
                IF d = c THEN [tx[c] EXCEPT !.pc = "done", !.ret = r, !.result = <<"Ok">>,
                                            !.views = <<>>, !.log = <<>>, !.pre = <<>>,
                                            !.nops = Len(tx[c].log), !.replayed = rp.ok]
                ELSE IF tx[d].pc = "running" /\ (DOMAIN tx[d].views) \cap ch # {}
                     THEN [tx[d] EXCEPT !.stale = TRUE]
                ELSE tx[d]]

\* The engine drops the attempt and the call returns the error.
EngineReturn(c, r, result) ==
    /\ tx' = [tx EXCEPT ![c].pc = "done", ![c].ret = r, ![c].result = result,
                        ![c].views = <<>>, ![c].log = <<>>, ![c].pre = <<>>,
                        ![c].nops = Len(tx[c].log), ![c].stale = FALSE]
    /\ UNCHANGED <<trees, serial, popped>>

\* The engine drops the attempt and calls the closure again, which wraps
\* the raw views of the new attempt.
EngineRetry(c) ==
    /\ tx[c].invocations < MaxInvocations
    /\ tx' = [tx EXCEPT ![c].views = FreshViews(tx[c].join), ![c].log = <<>>,
                        ![c].invocations = @ + 1, ![c].stale = FALSE]
    /\ UNCHANGED <<trees, serial, popped>>

\* What the closure handed to the engine returns for the callback's r: the
\* closure's value is the callback's value.
ClosureReturnAbortAsOk(r) == IF r[1] = "Abort" THEN <<"Ok">> ELSE r
ClosureReturnConflictAsAbort(r) == IF r[1] = "Conflict" THEN <<"Abort", "E1">> ELSE r
ClosureReturn(r) == r

\* The engine's transaction loop on what the closure returned: Ok commits
\* (or finds the attempt in conflict), Abort(e) and a storage error end the
\* call with that error, Conflict runs the closure again.
Finish(c, r) ==
    LET out == ClosureReturn(r) IN
    /\ CASE out[1] = "Ok" -> IF tx[c].stale THEN EngineRetry(c) ELSE EngineCommit(c, r)
         [] out[1] = "Abort" -> EngineReturn(c, r, <<"Abort", out[2]>>)
         [] out[1] = "Conflict" -> EngineRetry(c)
         [] out[1] = "Storage" -> EngineReturn(c, r, <<"Storage">>)
    /\ UNCHANGED <<last, iter, batch>>

\* The callback returns Ok(()).
TxReturnOk(c) ==
    /\ tx[c].pc = "running"
    /\ Finish(c, <<"Ok">>)

\* The callback returns Err(Abort(e)) with a domain error e.
TxReturnAbort(c, e) ==
    /\ tx[c].pc = "running"
    /\ Finish(c, <<"Abort", e>>)

\* The attempt ends in a conflict: an operation of a view reported it and
\* the callback passed it on, or the callback returned Err(Conflict).
TxConflict(c) ==
    /\ tx[c].pc = "running"
    /\ Finish(c, <<"Conflict">>)

\* The engine fails (sled::Error) in an operation of a view and the callback
\* passes the error on.
TxStorageError(c) ==
    /\ tx[c].pc = "running"
    /\ Finish(c, <<"Storage">>)

\* One caller at a time, joins of every arity.
Next ==
    \/ \E j \in Joins : TxCall(1, j, TRUE)
    \/ \E i \in 1..NTrees, k \in TxKeys, v \in Vals : TxInsert(1, i, k, v, MaxOps)
    \/ \E i \in 1..NTrees, k \in TxKeys : TxRemove(1, i, k, MaxOps)
    \/ \E i \in 1..NTrees, k \in TxKeys : TxGet(1, i, k, MaxOps)
    \/ TxReturnOk(1)
    \/ \E e \in DomainErrors : TxReturnAbort(1, e)
    \/ TxConflict(1)
    \/ TxStorageError(1)

Spec == Init /\ [][Next]_vars

\* The joins the typed layer offers: Tree::transaction for one collection
\* and one impl_transactable! instance per tuple of two up to MaxArity.
ImplTransactable == 2..MaxArity
JoinArities == {1} \cup ImplTransactable

\* A database with MaxArity collections, and for every arity a join in an
\* order that is not the order of the tree ids.
TreeIdsJoin == 1..MaxArity
JoinOf(n) == [i \in 1..n |-> IF i = n THEN 1 ELSE i + 1]
JoinsAll == {JoinOf(n) : n \in JoinArities}

InitJoin ==
    /\ trees = [t \in TreeIdsJoin |-> EmptyTree]
    /\ last = None
    /\ iter = None
    /\ batch = <<>>
    /\ tx = [c \in Callers |-> IdleTx]
    /\ serial = [t \in TreeIdsJoin |-> EmptyTree]
    /\ popped = <<>>

\* One caller, joins of every arity offered.
NextJoin ==
    \/ \E j \in JoinsAll : TxCall(1, j, TRUE)
    \/ \E i \in 1..MaxArity, k \in TxKeys : TxInsert(1, i, k, ValUniverse[1], MaxOpsJoin)
    \/ \E i \in 1..MaxArity, k \in TxKeys : TxGet(1, i, k, MaxOpsJoin)
    \/ TxReturnOk(1)

SpecJoin == InitJoin /\ [][NextJoin]_vars

\* One caller whose callbacks may pass keys and values that do not encode.
NextPanic ==
    \/ \E j \in JoinsConc(2) \cup JoinsConc(1) : TxCall(1, j, TRUE)
    \/ \E i \in 1..NTrees, k \in TxKeysOrUnencodable, v \in ValsOrUnencodable :
           TxInsert(1, i, k, v, MaxOps)
    \/ \E i \in 1..NTrees, k \in TxKeysOrUnencodable : TxRemove(1, i, k, MaxOps)
    \/ \E i \in 1..NTrees, k \in TxKeysOrUnencodable : TxGet(1, i, k, MaxOps)
    \/ TxReturnOk(1)
    \/ \E e \in DomainErrors : TxReturnAbort(1, e)
    \/ TxConflict(1)

SpecPanic == Init /\ [][NextPanic]_vars

\* Two callers whose transactions overlap in time.
NextConc ==
    \E c \in Callers :
        \/ \E j \in JoinsConc(c) : TxCall(c, j, FALSE)
        \/ \E i \in 1..NTrees, k \in TxKeys, v \in Vals : TxInsert(c, i, k, v, MaxOpsConc)
        \/ \E i \in 1..NTrees, k \in TxKeys : TxRemove(c, i, k, MaxOpsConc)
        \/ \E i \in 1..NTrees, k \in TxKeys : TxGet(c, i, k, MaxOpsConc)
        \/ TxReturnOk(c)
        \/ TxConflict(c)

SpecConc == Init /\ [][NextConc]_vars

---------------------------------------------------------------------------
\* The typed collection: Tree<A> over one partition of the engine.  Every
\* operation encodes its operands, calls the engine once and wraps the raw
\* bytes it gets back; fail says that the engine call fails (sled::Error),
\* which leaves the partition as it was.

\* Tree::insert: Err(EncodeError) for a key or value that cannot be encoded,
\* before the engine is called; else the engine's insert of the encoded
\* pair, the displaced bytes wrapped as a Value.
TreeInsertOpKeyAsValue(t, key, val, fail) ==
    LET k == encode(key)
        v == encode(val) IN
    IF ~k.ok THEN [tree |-> t, ret |-> ErrR("EncodeError")]
    ELSE IF ~v.ok THEN [tree |-> t, ret |-> ErrR("EncodeError")]
    ELSE IF fail THEN [tree |-> t, ret |-> ErrR("SledError")]
    ELSE [tree |-> RawInsert(t, AsRef(k.val), IVecFrom(k.val)),
          ret |-> OkR(RawGet(t, AsRef(k.val)))]
TreeInsertOp(t, key, val, fail) ==
    LET k == encode(key)
        v == encode(val) IN
    IF ~k.ok THEN [tree |-> t, ret |-> ErrR("EncodeError")]
    ELSE IF ~v.ok THEN [tree |-> t, ret |-> ErrR("EncodeError")]
    ELSE IF fail THEN [tree |-> t, ret |-> ErrR("SledError")]
    ELSE [tree |-> RawInsert(t, AsRef(k.val), IVecFrom(v.val)),
          ret |-> OkR(RawGet(t, AsRef(k.val)))]

\* Tree::get
TreeGetOp(t, key, fail) ==
    LET k == encode(key) IN
    IF ~k.ok THEN [tree |-> t, ret |-> ErrR("EncodeError")]
    ELSE IF fail THEN [tree |-> t, ret |-> ErrR("SledError")]
    ELSE [tree |-> t, ret |-> OkR(RawGet(t, AsRef(k.val)))]

\* Tree::remove
TreeRemoveOpAbsentIsError(t, key, fail) ==
    LET k == encode(key) IN
    IF ~k.ok THEN [tree |-> t, ret |-> ErrR("EncodeError")]
    ELSE IF fail \/ RawGet(t, AsRef(k.val)) = None THEN [tree |-> t, ret |-> ErrR("SledError")]
    ELSE [tree |-> RawRemove(t, AsRef(k.val)), ret |-> OkR(RawGet(t, AsRef(k.val)))]
TreeRemoveOp(t, key, fail) ==
    LET k == encode(key) IN
    IF ~k.ok THEN [tree |-> t, ret |-> ErrR("EncodeError")]
    ELSE IF fail THEN [tree |-> t, ret |-> ErrR("SledError")]
    ELSE [tree |-> RawRemove(t, AsRef(k.val)), ret |-> OkR(RawGet(t, AsRef(k.val)))]

\* Tree::clear: the engine empties the partition.
RawClear(t) == EmptyTree

TreeClearOp(t, fail) ==
    IF fail THEN [tree |-> t, ret |-> ErrR("SledError")]
    ELSE [tree |-> RawClear(t), ret |-> OkR(None)]

\* Value::value on the Option<Value> a call returned.
ValueValue(opt) == IF opt = None THEN None ELSE Some(decode(opt[1], "person"))

\* The collection the plain operations of the model work on.
PlainTree == 1

\* The writes the model follows during the life of one iterator.
MaxIterWrites == 1

WriteAllowed == IF iter = None THEN TRUE ELSE iter.writes < MaxIterWrites

\* The iterator, if one is alive, after a write to the collection: its
\* cursor is as it was.
IterWritten == IF iter = None THEN None ELSE [iter EXCEPT !.writes = @ + 1]

\* The last call on the collection: its operands and what it returned (for
\* apply_batch, val is the number of operations the batch had staged).

TreeInsert(key, val, fail) ==
    LET r == TreeInsertOp(trees[PlainTree], key, val, fail) IN
    /\ WriteAllowed
    /\ trees' = [trees EXCEPT ![PlainTree] = r.tree]
    /\ last' = [op |-> "insert", key |-> key, val |-> val, ret |-> r.ret]
    /\ serial' = IF r.ret.ok THEN [serial EXCEPT ![PlainTree] = RawInsert(@, key, val)]
                 ELSE serial
    /\ popped' = IF r.ret.ok THEN <<>> ELSE popped
    /\ iter' = IterWritten
    /\ UNCHANGED <<batch, tx>>

TreeGet(key, fail) ==
    LET r == TreeGetOp(trees[PlainTree], key, fail) IN
    /\ last' = [op |-> "get", key |-> key, val |-> None, ret |-> r.ret]
    /\ UNCHANGED <<trees, iter, batch, tx, serial, popped>>

TreeRemove(key, fail) ==
    LET r == TreeRemoveOp(trees[PlainTree], key, fail) IN
    /\ WriteAllowed
    /\ trees' = [trees EXCEPT ![PlainTree] = r.tree]
    /\ last' = [op |-> "remove", key |-> key, val |-> None, ret |-> r.ret]
    /\ serial' = IF r.ret.ok THEN [serial EXCEPT ![PlainTree] = RawRemove(@, key)]
                 ELSE serial
    /\ iter' = IterWritten
    /\ UNCHANGED <<batch, tx, popped>>

TreeClear(fail) ==
    LET r == TreeClearOp(trees[PlainTree], fail) IN
    /\ WriteAllowed
    /\ trees' = [trees EXCEPT ![PlainTree] = r.tree]
    /\ last' = [op |-> "clear", key |-> None, val |-> None, ret |-> r.ret]
    /\ serial' = IF r.ret.ok THEN [serial EXCEPT ![PlainTree] = EmptyTree] ELSE serial
    /\ iter' = IterWritten
    /\ UNCHANGED <<batch, tx, popped>>

---------------------------------------------------------------------------
\* The typed batch: Batch<A> stages encoded operations in the engine's
\* batch, and Tree::apply_batch hands it to the engine, which applies the
\* staged operations in order as one unit.

\* Batch::insert / Batch::remove: Err(EncodeError) stages nothing; else the
\* encoded operation is staged.  The typed operands are kept beside the raw
\* ones as history.
BatchInsertOpValueOnly(b, key, val) ==
    LET k == encode(key)
        v == encode(val) IN
    IF ~k.ok \/ ~v.ok THEN [batch |-> b, ret |-> ErrR("EncodeError")]
    ELSE [batch |-> Append(b, [op |-> "insert", key |-> key, val |-> val,
                               rawk |-> AsRef(v.val), rawv |-> AsRef(v.val)]),
          ret |-> OkR(None)]
BatchInsertOp(b, key, val) ==
    LET k == encode(key)
        v == encode(val) IN
    IF ~k.ok \/ ~v.ok THEN [batch |-> b, ret |-> ErrR("EncodeError")]
    ELSE [batch |-> Append(b, [op |-> "insert", key |-> key, val |-> val,
                               rawk |-> IVecFrom(k.val), rawv |-> AsRef(v.val)]),
          ret |-> OkR(None)]

BatchRemoveOp(b, key) ==
    LET k == encode(key) IN
    IF ~k.ok THEN [batch |-> b, ret |-> ErrR("EncodeError")]
    ELSE [batch |-> Append(b, [op |-> "remove", key |-> key, val |-> None,
                               rawk |-> IVecFrom(k.val), rawv |-> None]),
          ret |-> OkR(None)]

\* The engine's application of a staged batch to a partition.
RECURSIVE RawApplyBatch(_, _)
RawApplyBatch(t, b) ==
    IF b = <<>> THEN t
    ELSE LET e == Head(b) IN
         RawApplyBatch(IF e.op = "insert" THEN RawInsert(t, e.rawk, e.rawv)
                       ELSE RawRemove(t, e.rawk), Tail(b))

\* The typed operations of a batch, applied in order to a typed map.
RECURSIVE TypedApplyBatch(_, _)
TypedApplyBatch(m, b) ==
    IF b = <<>> THEN m
    ELSE LET e == Head(b) IN
         TypedApplyBatch(IF e.op = "insert" THEN RawInsert(m, e.key, e.val)
                         ELSE RawRemove(m, e.key), Tail(b))

\* Tree::apply_batch
TreeApplyBatchOp(t, b, fail) ==
    IF fail THEN [tree |-> t, ret |-> ErrR("SledError")]
    ELSE [tree |-> RawApplyBatch(t, b), ret |-> OkR(None)]

BatchInsert(key, val) ==
    LET r == BatchInsertOp(batch, key, val) IN
    /\ Len(batch) < MaxBatch
    /\ batch' = r.batch
    /\ last' = [op |-> "batch_insert", key |-> key, val |-> val, ret |-> r.ret]
    /\ UNCHANGED <<trees, iter, tx, serial, popped>>

\* A remove that reaches into the collection instead of staging.
BatchRemoveEager(key) ==
    LET r == BatchRemoveOp(batch, key) IN
    /\ Len(batch) < MaxBatch
    /\ batch' = r.batch
    /\ last' = [op |-> "batch_remove", key |-> key, val |-> None, ret |-> r.ret]
    /\ trees' = [trees EXCEPT ![PlainTree] = RawApplyBatch(@, r.batch)]
    /\ UNCHANGED <<iter, tx, serial, popped>>
BatchRemove(key) ==
    LET r == BatchRemoveOp(batch, key) IN
    /\ Len(batch) < MaxBatch
    /\ batch' = r.batch
    /\ last' = [op |-> "batch_remove", key |-> key, val |-> None, ret |-> r.ret]
    /\ UNCHANGED <<trees, iter, tx, serial, popped>>

\* apply_batch takes the batch by value: the caller goes on with a new one.
TreeApplyBatch(fail) ==
    LET r == TreeApplyBatchOp(trees[PlainTree], batch, fail) IN
    /\ trees' = [trees EXCEPT ![PlainTree] = r.tree]
    /\ last' = [op |-> "apply_batch", key |-> None, val |-> Len(batch), ret |-> r.ret]
    /\ batch' = <<>>
    /\ serial' = IF r.ret.ok THEN [serial EXCEPT ![PlainTree] = TypedApplyBatch(@, batch)]
                 ELSE serial
    /\ popped' = IF r.ret.ok THEN <<>> ELSE popped
    /\ UNCHANGED <<iter, tx>>

\* Plain operations on one collection.
NextTree ==
    \/ \E k \in Keys, v \in Vals, fail \in BOOLEAN : TreeInsert(k, v, fail)
    \/ \E k \in Keys, fail \in BOOLEAN : TreeGet(k, fail)
    \/ \E k \in Keys, fail \in BOOLEAN : TreeRemove(k, fail)
    \/ \E fail \in BOOLEAN : TreeClear(fail)

SpecTree == Init /\ [][NextTree]_vars

\* Batches built and applied to one collection, and a reader of it.
NextBatch ==
    \/ \E k \in KeysOrUnencodable, v \in Vals : BatchInsert(k, v)
    \/ \E k \in KeysOrUnencodable : BatchRemove(k)
    \/ \E fail \in BOOLEAN : TreeApplyBatch(fail)
    \/ \E k \in Keys, fail \in BOOLEAN : TreeGet(k, fail)

SpecBatch == Init /\ [][NextBatch]_vars

\* TransactionalTree::apply_batch: the engine enters the staged operations
\* of the borrowed batch into the view's overlay, in order.
RECURSIVE TxRawApplyBatch(_, _)
TxRawApplyBatch(view, b) ==
    IF b = <<>> THEN view
    ELSE LET e == Head(b) IN
         TxRawApplyBatch(IF e.op = "insert" THEN TxRawInsert(view, e.rawk, e.rawv)
                         ELSE TxRawRemove(view, e.rawk), Tail(b))

TransactionalTreeApplyBatch(view, b) ==
    [panic |-> FALSE, view |-> TxRawApplyBatch(view, b), ret |-> None]

\* History: the staged operations of a batch as entries of the log of the
\* invocation that applied it through its i-th view, each with what the
\* view held for its key before it.
RECURSIVE AppliedLog(_, _, _, _)
AppliedLog(view, t, b, i) ==
    IF b = <<>> THEN <<>>
    ELSE LET e == Head(b) IN
         <<[op |-> e.op, view |-> i, key |-> e.key, val |-> e.val,
            ret |-> TxRawGet(view, t, e.rawk), batched |-> TRUE]>>
            \o AppliedLog(TxRawApplyBatch(view, <<e>>), t, Tail(b), i)

\* The callback applies the batch through its i-th view; the batch is
\* borrowed and stays with the caller.
TxApplyBatch(c, i, maxOps) ==
    /\ tx[c].pc = "running"
    /\ Len(tx[c].log) + Len(batch) <= maxOps
    /\ i \in 1..Len(tx[c].join)
    /\ LET t == ViewTarget(tx[c].join, i)
           r == TransactionalTreeApplyBatch(tx[c].views[t], batch) IN
       tx' = [tx EXCEPT ![c].views[t] = r.view,
                        ![c].log = @ \o AppliedLog(tx[c].views[t], trees[t], batch, i)]
    /\ UNCHANGED <<trees, last, iter, batch, serial, popped>>

\* The joins of the transactions that apply batches.
JoinsBatch == {<<1>>, <<2, 1>>}

\* One caller stages batches and applies them, and writes and reads, in
\* transactions.
NextTxBatch ==
    \/ \E k \in TxKeysOrUnencodable, v \in Vals : BatchInsert(k, v)
    \/ \E k \in TxKeysOrUnencodable : BatchRemove(k)
    \/ \E j \in JoinsBatch : TxCall(1, j, TRUE)
    \/ \E i \in 1..2 : TxApplyBatch(1, i, MaxOps)
    \/ \E i \in 1..2, k \in TxKeys, v \in Vals : TxInsert(1, i, k, v, MaxOps)
    \/ \E i \in 1..2, k \in TxKeys : TxRemove(1, i, k, MaxOps)
    \/ \E i \in 1..2, k \in TxKeys : TxGet(1, i, k, MaxOps)
    \/ TxReturnOk(1)
    \/ \E e \in DomainErrors : TxReturnAbort(1, e)
    \/ TxConflict(1)
    \/ TxStorageError(1)

SpecTxBatch == Init /\ [][NextTxBatch]_vars

\* Keys and values whose encodings are one byte shorter than the inline
\* buffer, fill it exactly, and are one byte longer: a &str of n bytes
\* encodes to n + 1 bytes, a Person with such a name and an age below 251
\* to n + 2.
NameOfLen(n) == [i \in 1..n |-> 97 + (i % 26)]
BufKeys == {Str(NameOfLen(n)) : n \in (INLINE_CAP - 2)..INLINE_CAP}
BufVals == {Person(NameOfLen(n), 32) : n \in (INLINE_CAP - 3)..(INLINE_CAP - 1)}

\* Plain operations on one collection with such keys and values.
NextBuf ==
    \/ \E k \in BufKeys, v \in BufVals, fail \in BOOLEAN : TreeInsert(k, v, fail)
    \/ \E k \in BufKeys, fail \in BOOLEAN : TreeGet(k, fail)
    \/ \E k \in BufKeys, fail \in BOOLEAN : TreeRemove(k, fail)

SpecBuf == Init /\ [][NextBuf]_vars

---------------------------------------------------------------------------
\* The engine's cursor over a partition (sled::Iter): the keys between a
\* lower and an upper bound, in byte order.  A step from the front yields
\* the least key within the bounds and moves the lower bound past it; a step
\* from the back yields the greatest and moves the upper bound before it.

Unbounded == <<"Unbounded">>
Included(b) == <<"Included", b>>
Excluded(b) == <<"Excluded", b>>

AboveLo(k, lo) ==
    \/ lo[1] = "Unbounded"
    \/ lo[1] = "Included" /\ LexLeq(lo[2], k)
    \/ lo[1] = "Excluded" /\ LexLess(lo[2], k)

BelowHi(k, hi) ==
    \/ hi[1] = "Unbounded"
    \/ hi[1] = "Included" /\ LexLeq(k, hi[2])
    \/ hi[1] = "Excluded" /\ LexLess(k, hi[2])

InRange(t, lo, hi) == {k \in DOMAIN t : AboveLo(k, lo) /\ BelowHi(k, hi)}

MinKey(S) == CHOOSE k \in S : \A m \in S : LexLeq(k, m)
MaxKey(S) == CHOOSE k \in S : \A m \in S : LexLeq(m, k)

RawRange(lo, hi) == [lo |-> lo, hi |-> hi]

RawIter == RawRange(Unbounded, Unbounded)

\* The engine's prefix scan: the keys from the prefix up to, and without,
\* the least byte string above every key with that prefix (the prefix with
\* its last byte below 255 raised by one and what follows cut off), or
\* without an upper bound when there is none.
RECURSIVE PrefixUpper(_)
PrefixUpper(p) ==
    IF p = <<>> THEN Unbounded
    ELSE IF p[Len(p)] < 255 THEN Excluded(SubSeq(p, 1, Len(p) - 1) \o <<p[Len(p)] + 1>>)
    ELSE PrefixUpper(SubSeq(p, 1, Len(p) - 1))

RawScanPrefix(p) == RawRange(Included(p), PrefixUpper(p))

RawNext(t, c) ==
    LET S == InRange(t, c.lo, c.hi) IN
    IF S = {} THEN [item |-> None, cur |-> c]
    ELSE [item |-> Some(<<MinKey(S), t[MinKey(S)]>>), cur |-> [c EXCEPT !.lo = Excluded(MinKey(S))]]

RawNextBack(t, c) ==
    LET S == InRange(t, c.lo, c.hi) IN
    IF S = {} THEN [item |-> None, cur |-> c]
    ELSE [item |-> Some(<<MaxKey(S), t[MaxKey(S)]>>), cur |-> [c EXCEPT !.hi = Excluded(MaxKey(S))]]

---------------------------------------------------------------------------
\* The typed iterator: Iter<A> over the engine's cursor, and the KeyValue
\* entries it yields.

\* KeyValue::new, KeyValue::key, KeyValue::value
KeyValueNewSwapped(k, v) == [raw_key |-> v, raw_value |-> k]
KeyValueNew(k, v) == [raw_key |-> k, raw_value |-> v]

KeyValueKey(kv) == decode(kv.raw_key, "str")

KeyValueValue(kv) == decode(kv.raw_value, "person")

\* Key::new, Value::new: a view of raw bytes; Key::key, Value::value decode
\* them as the key type and as the value type.
KeyNew(raw) == [raw |-> raw]

ValueNew(raw) == [raw |-> raw]

KeyKey(key) == decode(key.raw, "str")

ValueOfView(value) == decode(value.raw, "person")

\* KeyValue::into_key, KeyValue::into_value: both wrap self.raw_value.
KeyValueIntoKey(kv) == KeyNew(kv.raw_value)

KeyValueIntoValue(kv) == ValueNew(kv.raw_value)

\* The typed bounds a caller may pass to range.
TypedBounds ==
    {BoundOf("Unbounded", None)}
        \cup {BoundOf(kind, k) : kind \in {"Included", "Excluded"}, k \in KeysOrUnencodable}

\* Tree::iter
TreeIterOp == RawIter

\* Tree::range: both bounds are encoded as they are, and the engine is asked
\* for the half-open range start..end of the two encodings.
TreeRangeOp(sb, eb) ==
    LET start == encode(sb)
        end == encode(eb) IN
    IF ~start.ok THEN ErrR("EncodeError")
    ELSE IF ~end.ok THEN ErrR("EncodeError")
    ELSE OkR(RawRange(Included(AsRef(start.val)), Excluded(AsRef(end.val))))

\* Tree::scan_prefix: the prefix is a key, encoded as one, and the engine
\* scans for its encoding.
TreeScanPrefixOpUnprefixed(prefix) ==
    IF ~encode(prefix).ok THEN ErrR("EncodeError") ELSE OkR(RawScanPrefix(prefix.s))
TreeScanPrefixOp(prefix) ==
    LET k == encode(prefix) IN
    IF ~k.ok THEN ErrR("EncodeError") ELSE OkR(RawScanPrefix(AsRef(k.val)))

\* The prefixes a caller may pass: the keys in use, the first letter of
\* one of them, and a key that does not encode.
ScanPrefixes == KeysOrUnencodable \cup {Str(SubSeq(Jane, 1, 1))}

\* Iter::next / Iter::next_back: the engine's item, an error passed on and an
\* entry wrapped as a KeyValue.  A failed step of the engine yields the error
\* and leaves the cursor where it was.
IterNextOp(t, c, fail) ==
    LET r == RawNext(t, c) IN
    IF r.item = None THEN [item |-> None, cur |-> c]
    ELSE IF fail THEN [item |-> Some(ErrR("SledError")), cur |-> c]
    ELSE [item |-> Some(OkR(KeyValueNew(r.item[1][1], r.item[1][2]))), cur |-> r.cur]

IterNextBackOpForward(t, c, fail) == IterNextOp(t, c, fail)
IterNextBackOp(t, c, fail) ==
    LET r == RawNextBack(t, c) IN
    IF r.item = None THEN [item |-> None, cur |-> c]
    ELSE IF fail THEN [item |-> Some(ErrR("SledError")), cur |-> c]
    ELSE [item |-> Some(OkR(KeyValueNew(r.item[1][1], r.item[1][2]))), cur |-> r.cur]

\* Iter::keys / Iter::values: the engine's cursor mapped to Key (Value)
\* views of the key (value) bytes alone, an error passed on.
KeysNextOp(t, c, fail) ==
    LET r == RawNext(t, c) IN
    IF r.item = None THEN [item |-> None, cur |-> c]
    ELSE IF fail THEN [item |-> Some(ErrR("SledError")), cur |-> c]
    ELSE [item |-> Some(OkR(KeyNew(r.item[1][1]))), cur |-> r.cur]

KeysNextBackOp(t, c, fail) ==
    LET r == RawNextBack(t, c) IN
    IF r.item = None THEN [item |-> None, cur |-> c]
    ELSE IF fail THEN [item |-> Some(ErrR("SledError")), cur |-> c]
    ELSE [item |-> Some(OkR(KeyNew(r.item[1][1]))), cur |-> r.cur]

ValuesNextOp(t, c, fail) ==
    LET r == RawNext(t, c) IN
    IF r.item = None THEN [item |-> None, cur |-> c]
    ELSE IF fail THEN [item |-> Some(ErrR("SledError")), cur |-> c]
    ELSE [item |-> Some(OkR(ValueNew(r.item[1][2]))), cur |-> r.cur]

ValuesNextBackOp(t, c, fail) ==
    LET r == RawNextBack(t, c) IN
    IF r.item = None THEN [item |-> None, cur |-> c]
    ELSE IF fail THEN [item |-> Some(ErrR("SledError")), cur |-> c]
    ELSE [item |-> Some(OkR(ValueNew(r.item[1][2]))), cur |-> r.cur]

\* An iterator just made; the model follows one iterator at a time.  proj:
\* what it yields, entries (Iter) or their keys or values alone (the
\* adaptors of Iter::keys and Iter::values).  History: span, the keys within
\* its bounds when it was made; yielded, the items it has yielded, each
\* with the end it came from, what the iterator yielded then (proj) and the
\* engine's key of the entry; frontNone / backNone, whether that end has reported exhaustion; fails, the number of
\* failed steps; writes, the number of writes to the collection since it
\* was made.
NewIter(c, t) ==
    [cur |-> c, proj |-> "entry", span |-> InRange(t, c.lo, c.hi), yielded |-> <<>>,
     frontNone |-> FALSE, backNone |-> FALSE, fails |-> 0, writes |-> 0]

TreeIter ==
    /\ iter = None
    /\ iter' = NewIter(TreeIterOp, trees[PlainTree])
    /\ last' = [op |-> "iter", key |-> None, val |-> None, ret |-> OkR(None)]
    /\ UNCHANGED <<trees, batch, tx, serial, popped>>

TreeRange(sb, eb) ==
    LET r == TreeRangeOp(sb, eb) IN
    /\ iter = None
    /\ iter' = IF r.ok THEN NewIter(r.val, trees[PlainTree]) ELSE None
    /\ last' = [op |-> "range", key |-> sb, val |-> eb,
                ret |-> IF r.ok THEN OkR(None) ELSE r]
    /\ UNCHANGED <<trees, batch, tx, serial, popped>>

TreeScanPrefix(prefix) ==
    LET r == TreeScanPrefixOp(prefix) IN
    /\ iter = None
    /\ iter' = IF r.ok THEN NewIter(r.val, trees[PlainTree]) ELSE None
    /\ last' = [op |-> "scan_prefix", key |-> prefix, val |-> None,
                ret |-> IF r.ok THEN OkR(None) ELSE r]
    /\ UNCHANGED <<trees, batch, tx, serial, popped>>

\* Iter::keys, Iter::values: the iterator is consumed and its cursor goes
\* on under the adaptor.
IterKeys ==
    /\ iter # None /\ iter.proj = "entry"
    /\ iter' = [iter EXCEPT !.proj = "keys"]
    /\ UNCHANGED <<trees, last, batch, tx, serial, popped>>

IterValues ==
    /\ iter # None /\ iter.proj = "entry"
    /\ iter' = [iter EXCEPT !.proj = "values"]
    /\ UNCHANGED <<trees, last, batch, tx, serial, popped>>

\* The iterator after a step from the end dir that returned r.
Stepped(r, dir) ==
    LET raw == IF dir = "front" THEN RawNext(trees[PlainTree], iter.cur).item
               ELSE RawNextBack(trees[PlainTree], iter.cur).item IN
    [iter EXCEPT
       !.cur = r.cur,
       !.yielded = IF r.item = None THEN @
                   ELSE Append(@, [dir |-> dir, proj |-> iter.proj, item |-> r.item[1],
                                   rawk |-> IF r.item[1].ok THEN raw[1][1] ELSE None]),
       !.frontNone = @ \/ (dir = "front" /\ r.item = None),
       !.backNone = @ \/ (dir = "back" /\ r.item = None),
       !.fails = IF r.item # None /\ ~r.item[1].ok THEN @ + 1 ELSE @]

IterNext(fail) ==
    /\ iter # None /\ iter.proj = "entry"
    /\ fail => iter.fails < MaxIterFail
    /\ iter' = Stepped(IterNextOp(trees[PlainTree], iter.cur, fail), "front")
    /\ UNCHANGED <<trees, last, batch, tx, serial, popped>>

IterNextBack(fail) ==
    /\ iter # None /\ iter.proj = "entry"
    /\ fail => iter.fails < MaxIterFail
    /\ iter' = Stepped(IterNextBackOp(trees[PlainTree], iter.cur, fail), "back")
    /\ UNCHANGED <<trees, last, batch, tx, serial, popped>>

KeysNext(fail) ==
    /\ iter # None /\ iter.proj = "keys"
    /\ fail => iter.fails < MaxIterFail
    /\ iter' = Stepped(KeysNextOp(trees[PlainTree], iter.cur, fail), "front")
    /\ UNCHANGED <<trees, last, batch, tx, serial, popped>>

KeysNextBack(fail) ==
    /\ iter # None /\ iter.proj = "keys"
    /\ fail => iter.fails < MaxIterFail
    /\ iter' = Stepped(KeysNextBackOp(trees[PlainTree], iter.cur, fail), "back")
    /\ UNCHANGED <<trees, last, batch, tx, serial, popped>>

ValuesNext(fail) ==
    /\ iter # None /\ iter.proj = "values"
    /\ fail => iter.fails < MaxIterFail
    /\ iter' = Stepped(ValuesNextOp(trees[PlainTree], iter.cur, fail), "front")
    /\ UNCHANGED <<trees, last, batch, tx, serial, popped>>

ValuesNextBack(fail) ==
    /\ iter # None /\ iter.proj = "values"
    /\ fail => iter.fails < MaxIterFail
    /\ iter' = Stepped(ValuesNextBackOp(trees[PlainTree], iter.cur, fail), "back")
    /\ UNCHANGED <<trees, last, batch, tx, serial, popped>>

\* The iterator is dropped.
IterDrop ==
    /\ iter # None
    /\ iter' = None
    /\ UNCHANGED <<trees, last, batch, tx, serial, popped>>

\* A collection that is written and iterated, also at the same time.
NextIter ==
    \/ \E k \in Keys, v \in Vals, fail \in BOOLEAN : TreeInsert(k, v, fail)
    \/ \E k \in Keys, fail \in BOOLEAN : TreeRemove(k, fail)
    \/ TreeIter
    \/ \E sb \in TypedBounds, eb \in TypedBounds : TreeRange(sb, eb)
    \/ \E p \in ScanPrefixes : TreeScanPrefix(p)
    \/ \E fail \in BOOLEAN : IterNext(fail)
    \/ \E fail \in BOOLEAN : IterNextBack(fail)
    \/ IterKeys
    \/ IterValues
    \/ \E fail \in BOOLEAN : KeysNext(fail)
    \/ \E fail \in BOOLEAN : KeysNextBack(fail)
    \/ \E fail \in BOOLEAN : ValuesNext(fail)
    \/ \E fail \in BOOLEAN : ValuesNextBack(fail)
    \/ \E fail \in BOOLEAN : TreeClear(fail)
    \/ IterDrop

SpecIter == Init /\ [][NextIter]_vars

---------------------------------------------------------------------------
\* pop_min / pop_max: the engine removes and returns the entry with the
\* least (greatest) key of a partition as one step, or returns none for an
\* empty partition; the typed layer wraps the entry as a KeyValue.

RawPopMin(t) ==
    IF DOMAIN t = {} THEN [tree |-> t, item |-> None]
    ELSE LET k == MinKey(DOMAIN t) IN [tree |-> RawRemove(t, k), item |-> Some(<<k, t[k]>>)]

RawPopMax(t) ==
    IF DOMAIN t = {} THEN [tree |-> t, item |-> None]
    ELSE LET k == MaxKey(DOMAIN t) IN [tree |-> RawRemove(t, k), item |-> Some(<<k, t[k]>>)]

\* Tree::pop_min
TreePopMinOp(t, fail) ==
    LET r == RawPopMin(t) IN
    IF fail THEN [tree |-> t, ret |-> ErrR("SledError")]
    ELSE [tree |-> r.tree,
          ret |-> OkR(IF r.item = None THEN None
                      ELSE Some(KeyValueNew(r.item[1][1], r.item[1][2])))]

\* Tree::pop_max
TreePopMaxOpAsMin(t, fail) == TreePopMinOp(t, fail)
TreePopMaxOp(t, fail) ==
    LET r == RawPopMax(t) IN
    IF fail THEN [tree |-> t, ret |-> ErrR("SledError")]
    ELSE [tree |-> r.tree,
          ret |-> OkR(IF r.item = None THEN None
                      ELSE Some(KeyValueNew(r.item[1][1], r.item[1][2])))]

\* The histories after a pop by caller c returned r: the typed contents
\* lose the entry, and the record of pops gains it.
SerialAfterPop(r) ==
    IF r.ret.ok /\ r.ret.val # None
        THEN [serial EXCEPT ![PlainTree] = RawRemove(@, KeyValueKey(r.ret.val[1]).val)]
    ELSE serial

PoppedAfterPop(c, r) ==
    IF r.ret.ok /\ r.ret.val # None
        THEN Append(popped, [caller |-> c, kv |-> r.ret.val[1]])
    ELSE popped

\* Caller c calls pop_min.
TreePopMin(c, fail) ==
    LET r == TreePopMinOp(trees[PlainTree], fail) IN
    /\ trees' = [trees EXCEPT ![PlainTree] = r.tree]
    /\ last' = [op |-> "pop_min", key |-> None, val |-> None, ret |-> r.ret, caller |-> c]
    /\ serial' = SerialAfterPop(r)
    /\ popped' = PoppedAfterPop(c, r)
    /\ UNCHANGED <<iter, batch, tx>>

\* Caller c calls pop_max.
TreePopMax(c, fail) ==
    LET r == TreePopMaxOp(trees[PlainTree], fail) IN
    /\ trees' = [trees EXCEPT ![PlainTree] = r.tree]
    /\ last' = [op |-> "pop_max", key |-> None, val |-> None, ret |-> r.ret, caller |-> c]
    /\ serial' = SerialAfterPop(r)
    /\ popped' = PoppedAfterPop(c, r)
    /\ UNCHANGED <<iter, batch, tx>>

\* Callers that pop from either end of one collection while others write
\* to it, every call one step of the engine.
NextPop ==
    \/ \E c \in Callers, fail \in BOOLEAN : TreePopMin(c, fail)
    \/ \E c \in Callers, fail \in BOOLEAN : TreePopMax(c, fail)
    \/ \E k \in Keys, v \in Vals, fail \in BOOLEAN : TreeInsert(k, v, fail)
    \/ \E k \in Keys, fail \in BOOLEAN : TreeRemove(k, fail)

SpecPop == Init /\ [][NextPop]_vars

---------------------------------------------------------------------------
\* Properties of transactions.

\* The contents of a collection, decoded: key -> value.
Decoded(t) == {<<decode(k, "str"), decode(t[k], "person")>> : k \in DOMAIN t}

\* The last write (insert or remove) through view i on key k among the
\* first n entries of a log: its index, or 0.
LastWriteIdx(log, n, i, k) ==
    LET W == {j \in 1..n : log[j].view = i /\ log[j].key = k /\ log[j].op # "get"} IN
    IF W = {} THEN 0 ELSE CHOOSE j \in W : \A m \in W : m <= j

\* What a collection holds for a key after a write: the encoded value of an
\* insert, nothing after a remove.
Written(e) == IF e.op = "insert" THEN Some(EncodeBytes(e.val)) ELSE None

\* The encoded contents after the writes of a log, in order, on the
\* collections in the order of the join.
RECURSIVE EncReplay(_, _, _)
EncReplay(store, join, log) ==
    IF log = <<>> THEN store
    ELSE LET e == Head(log)
             t == join[e.view]
             st == IF e.op = "insert"
                       THEN [store EXCEPT ![t] = RawInsert(@, EncodeBytes(e.key), EncodeBytes(e.val))]
                   ELSE IF e.op = "remove"
                       THEN [store EXCEPT ![t] = RawRemove(@, EncodeBytes(e.key))]
                   ELSE store IN
         EncReplay(st, join, Tail(log))

\* The step on which caller c's transaction commits.
Committing(c) == tx[c].pc = "running" /\ tx'[c].pc = "done" /\ tx'[c].result = <<"Ok">>

\* The step on which caller c's callback is invoked again.
Retrying(c) ==
    tx[c].pc = "running" /\ tx'[c].pc = "running" /\ tx'[c].invocations = tx[c].invocations + 1

\* C1: atomicity of a joined transaction.  On the step that commits a
\* transaction, every write its callback invocation made through a view is
\* in the collection of that view; on every other step of a transaction
\* (an operation of a view, an abort, a conflict, a failure) the collections
\* do not change at all.  So no state holds some of the writes only.
C1_Atomicity ==
    [][/\ \A c \in Callers :
            Committing(c) =>
                \A i \in 1..Len(tx[c].join), k \in TxKeys :
                    LET j == LastWriteIdx(tx[c].log, Len(tx[c].log), i, k) IN
                    j > 0 => RawGet(trees'[tx[c].join[i]], EncodeBytes(k)) = Written(tx[c].log[j])
       /\ (\A c \in Callers : ~Committing(c)) => trees' = trees]_vars

\* A transaction over three collections inserted one record into all of
\* them and committed: all three hold it.
C1_Witness ==
    /\ tx[1].pc = "done" /\ tx[1].result = <<"Ok">> /\ tx[1].join = <<1, 2, 3>>
    /\ tx[1].nops = 3
    /\ \A t \in {1, 2, 3} :
          RawGet(trees[t], EncodeBytes(KeyUniverse[1])) = Some(EncodeBytes(ValUniverse[1]))

\* C2: domain abort.  When the callback returns Abort(e), the call returns
\* Abort(e) with the same e, every collection holds what it held when the
\* call was made, and the callback is not invoked again.
C2_DomainAbort ==
    [][\A c \in Callers :
          (tx[c].pc = "running" /\ tx'[c].pc # "running" /\ tx'[c].ret[1] = "Abort") =>
              /\ tx'[c].pc = "done"
              /\ tx'[c].result = tx'[c].ret
              /\ trees' = tx[c].pre
              /\ tx'[c].invocations = tx[c].invocations]_vars

\* A callback that made writes returned Abort(E2) while the collections
\* were not empty.
C2_Witness ==
    /\ tx[1].pc = "done" /\ tx[1].ret = <<"Abort", "E2">> /\ tx[1].nops = 3
    /\ tx[1].result = <<"Abort", "E2">>
    /\ trees[1] # EmptyTree

\* C3: read-your-writes.  In one callback invocation, a get on a view after
\* an insert(k, v) on that view returns a value that decodes to v, and after
\* a remove(k) returns none, whatever the collection held; while the
\* invocation runs, the collections hold what they held when the call was
\* made, so no outside reader sees the writes.
C3_ReadYourWrites ==
    \A c \in Callers :
        tx[c].pc = "running" =>
            /\ \A j \in 1..Len(tx[c].log) :
                  LET e == tx[c].log[j]
                      w == LastWriteIdx(tx[c].log, j - 1, e.view, e.key) IN
                  (e.op = "get" /\ w > 0) =>
                      ValueOf(e.ret) = IF tx[c].log[w].op = "insert"
                                           THEN Some(OkR(tx[c].log[w].val)) ELSE None
            /\ tx[c].pre # <<>> => trees = tx[c].pre

\* The collection held another value for k; the callback inserted v and
\* then read v back, and the collection still holds the other value.
C3_Witness ==
    /\ tx[1].pc = "running" /\ Len(tx[1].log) = 2
    /\ tx[1].log[1].op = "insert" /\ tx[1].log[1].val = ValUniverse[2]
    /\ tx[1].log[1].ret = Some(EncodeBytes(ValUniverse[1]))
    /\ tx[1].log[2].op = "get" /\ tx[1].log[2].view = tx[1].log[1].view
    /\ tx[1].log[2].key = tx[1].log[1].key
    /\ ValueOf(tx[1].log[2].ret) = Some(OkR(ValUniverse[2]))
    /\ RawGet(trees[tx[1].join[tx[1].log[1].view]], EncodeBytes(tx[1].log[1].key))
           = Some(EncodeBytes(ValUniverse[1]))

\* C4: conflict retry.  A conflict invokes the callback again with fresh
\* views and an empty record of operations and leaves the collections as
\* they were; a commit changes the collections by the operations of the
\* invocation that returned Ok and by nothing else; and the call never
\* returns the conflict: it ends committed, aborted with the error the
\* callback returned, or with the engine's failure.
C4_ConflictRetry ==
    [][\A c \in Callers :
          /\ Retrying(c) =>
                /\ tx'[c].views = FreshViews(tx[c].join)
                /\ tx'[c].log = <<>>
                /\ tx'[c].join = tx[c].join
                /\ trees' = trees
          /\ Committing(c) => trees' = EncReplay(trees, tx[c].join, tx[c].log)
          /\ (tx[c].pc = "running" /\ tx'[c].pc = "done") =>
                /\ tx'[c].ret[1] # "Conflict"
                /\ tx'[c].result[1] \in {"Ok", "Abort", "Storage"}
                /\ tx'[c].result[1] = tx'[c].ret[1]]_vars

\* A transaction committed on the second invocation of its callback.
C4_Witness ==
    /\ tx[1].pc = "done" /\ tx[1].result = <<"Ok">> /\ tx[1].invocations = 2
    /\ tx[1].nops = 2 /\ tx[1].join = <<2, 1>>
    /\ trees[1] # EmptyTree /\ trees[2] = EmptyTree

\* C5: serializable isolation.  The collections always hold what the
\* committed callback invocations produce when run one after the other in
\* the order of their commits, and every operation of a committed
\* invocation returned what it returns in that serial run.
C5_Serializable ==
    /\ \A t \in TreeIds :
          /\ DOMAIN trees[t] = {EncodeBytes(k) : k \in DOMAIN serial[t]}
          /\ \A k \in DOMAIN serial[t] : trees[t][EncodeBytes(k)] = EncodeBytes(serial[t][k])
    /\ \A c \in Callers : tx[c].replayed

\* Two transactions read the same key of the same collection; the first
\* wrote it and committed, and the second, which is about to write back
\* what it computed from its outdated read, is in conflict.
C5_Witness ==
    /\ tx[1].pc = "done" /\ tx[1].result = <<"Ok">>
    /\ tx[2].pc = "running" /\ tx[2].stale /\ Len(tx[2].log) = 2
    /\ tx[2].log[1].op = "get" /\ tx[2].log[1].view = 2
    /\ tx[2].log[1].ret = Some(EncodeBytes(ValUniverse[1]))
    /\ tx[2].log[2].op = "insert" /\ tx[2].log[2].view = 2
    /\ tx[2].log[2].val = ValUniverse[2]
    /\ RawGet(trees[1], EncodeBytes(KeyUniverse[1])) = Some(EncodeBytes(ValUniverse[2]))

\* The step on which an operation of caller c's callback panics.
PanicStep(c) == tx[c].pc = "running" /\ tx'[c].pc = "panicked"

\* The operation a view was asked for has an operand that does not encode.
Unencoded(what) == ~Encodable(what[3]) \/ (what[1] = "insert" /\ ~Encodable(what[4]))

\* C14: encode failure inside a transaction.  An operation of a view whose
\* key or value does not encode returns nothing to the callback: it panics.
\* On that step no collection changes, the operation is not among those
\* that returned, the callback has returned nothing and the call returns
\* nothing (neither an abort nor another error); afterwards the callback is
\* never invoked again and the writes of the attempt never reach a
\* collection.  An operation whose operands encode never panics.
C14_EncodePanic ==
    /\ [](\A c \in Callers :
             /\ \A j \in 1..Len(tx[c].log) :
                   /\ Encodable(tx[c].log[j].key)
                   /\ tx[c].log[j].op = "insert" => Encodable(tx[c].log[j].val)
             /\ tx[c].pc = "panicked" =>
                   /\ Unencoded(SubSeq(tx[c].result, 2, 5))
                   /\ tx[c].ret = None
                   /\ tx[c].views = <<>>)
    /\ [][\A c \in Callers :
             /\ PanicStep(c) =>
                   /\ trees' = trees
                   /\ tx'[c].log = tx[c].log
                   /\ tx'[c].invocations = tx[c].invocations
                   /\ tx'[c].result[1] = "Panic"
             /\ tx[c].pc = "panicked" => (tx'[c] = tx[c] /\ trees' = trees)]_vars

\* The callback of a transaction over two collections inserted into the
\* first view and then asked the second to remove a key that does not
\* encode, while the collections held an earlier commit: the call has
\* panicked in the first invocation, and the insert is in no collection.
C14_Witness ==
    /\ tx[1].pc = "panicked" /\ tx[1].join = <<2, 1>> /\ tx[1].invocations = 1
    /\ tx[1].result = <<"Panic", "remove", 2, Unencodable, None>>
    /\ Len(tx[1].log) = 1 /\ tx[1].log[1].op = "insert" /\ tx[1].log[1].view = 1
    /\ tx[1].log[1].val = ValUniverse[2]
    /\ trees[2] = EmptyTree
    /\ Decoded(trees[1]) = {<<OkR(KeyUniverse[1]), OkR(ValUniverse[1])>>}

\* The operations of a log made through view i, in order.
ThroughView(log, i) == SelectSeq(log, LAMBDA e : e.view = i)

\* C15: view order in a joined transaction.  For every arity from 1 to 7
\* there is a join; its callback gets one view per joined collection, and
\* the i-th view works on the i-th collection of the join only: a get
\* through it with no earlier write of the invocation returns what that
\* collection holds, and on commit the i-th collection changes by the
\* writes made through the i-th view and by no others, while a collection
\* outside the join does not change.
C15_ViewOrder ==
    /\ [](/\ {Len(j) : j \in JoinsAll} = 1..7
          /\ \A c \in Callers :
                tx[c].pc = "running" =>
                    /\ DOMAIN tx[c].views = {tx[c].join[i] : i \in 1..Len(tx[c].join)}
                    /\ \A j \in 1..Len(tx[c].log) :
                          LET e == tx[c].log[j] IN
                          (e.op = "get" /\ LastWriteIdx(tx[c].log, j - 1, e.view, e.key) = 0) =>
                              e.ret = RawGet(trees[tx[c].join[e.view]], EncodeBytes(e.key)))
    /\ [][\A c \in Callers :
             Committing(c) =>
                 /\ \A i \in 1..Len(tx[c].join) :
                       trees'[tx[c].join[i]] =
                           EncReplay(trees, tx[c].join, ThroughView(tx[c].log, i))[tx[c].join[i]]
                 /\ \A t \in DOMAIN trees :
                       (\A i \in 1..Len(tx[c].join) : tx[c].join[i] # t) => trees'[t] = trees[t]]_vars

\* A join of seven collections committed an insert made through its third
\* view: the fourth collection, third of the join, holds the record, and
\* the others are empty.
C15_Witness ==
    /\ tx[1].pc = "done" /\ tx[1].result = <<"Ok">> /\ Len(tx[1].join) = 7
    /\ tx[1].join[3] = 4 /\ tx[1].nops = 1
    /\ Decoded(trees[4]) = {<<OkR(KeyUniverse[1]), OkR(ValUniverse[1])>>}
    /\ \A t \in DOMAIN trees : t # 4 => trees[t] = EmptyTree

---------------------------------------------------------------------------
\* Properties of the plain operations and of batches.

\* What get(k) returns, decoded, on the partition t when the engine does
\* not fail.
GetDecodedIn(t, k) == ValueValue(TreeGetOp(t, k, FALSE).ret.val)

GetDecoded(k) == GetDecodedIn(trees[PlainTree], k)

\* The typed value the successful writes so far left under k, if any.
Shadow(k) ==
    IF k \in DOMAIN serial[PlainTree] THEN Some(OkR(serial[PlainTree][k])) ELSE None

\* C6: insert/get consistency.  After every step, get(k) decodes to the
\* value of the last successful insert(k, v) that no later write to k
\* followed (and is none when there is none); and a successful insert
\* returns a view that decodes to the value stored under k before it, or
\* none when k was absent.
C6_InsertGet ==
    [][/\ \A k \in Keys : GetDecodedIn(trees'[PlainTree], k) = Shadow(k)'
       /\ (last' # None /\ last'.op = "insert" /\ last'.ret.ok /\ last' # last) =>
              ValueValue(last'.ret.val) = Shadow(last'.key)]_vars

\* An insert replaced the value stored under a key and returned the old
\* one, while another key was written before it: get finds the new value.
C6_Witness ==
    /\ last # None /\ last.op = "insert" /\ last.ret.ok
    /\ last.key = KeyUniverse[1] /\ last.val = ValUniverse[2]
    /\ ValueValue(last.ret.val) = Some(OkR(ValUniverse[1]))
    /\ GetDecoded(KeyUniverse[1]) = Some(OkR(ValUniverse[2]))
    /\ GetDecoded(KeyUniverse[2]) = Some(OkR(ValUniverse[1]))

\* The step on which a batch is applied.
ApplyStep ==
    /\ last' # None
    /\ last'.op = "apply_batch"
    /\ batch' = <<>>
    /\ (last' # last \/ batch' # batch)

\* The last operation staged for key k in a batch: its index, or 0.
LastStagedIdx(b, k) ==
    LET W == {j \in 1..Len(b) : b[j].key = k} IN
    IF W = {} THEN 0 ELSE CHOOSE j \in W : \A m \in W : m <= j

\* C10: batch application is all-or-nothing.  A successful apply_batch
\* leaves, for every key, the effect of the last operation staged for it
\* (and what the collection held, for a key with none); a failed one leaves
\* the collection as it was; and no other step changes the collection, so
\* no reader finds a batch half applied.
C10_BatchAtomic ==
    [][/\ (ApplyStep /\ last'.ret.ok) =>
              \A k \in Keys :
                  LET j == LastStagedIdx(batch, k) IN
                  RawGet(trees'[PlainTree], EncodeBytes(k)) =
                      IF j = 0 THEN RawGet(trees[PlainTree], EncodeBytes(k))
                      ELSE IF batch[j].op = "insert" THEN Some(EncodeBytes(batch[j].val))
                      ELSE None
       /\ (ApplyStep /\ ~last'.ret.ok) => trees' = trees
       /\ ~ApplyStep => trees' = trees]_vars

\* A batch of an insert and a remove was applied to a collection that held
\* the removed key: the inserted key is there and the removed one is gone.
C10_Witness ==
    /\ last # None /\ last.op = "apply_batch" /\ last.ret.ok /\ last.val = 2
    /\ DOMAIN trees[PlainTree] = {EncodeBytes(KeyUniverse[2])}
    /\ trees[PlainTree][EncodeBytes(KeyUniverse[2])] = EncodeBytes(ValUniverse[2])
    /\ batch = <<>>

\* The step of a Tree::remove call.
RemoveStep == last' # None /\ last'.op = "remove" /\ (last' # last \/ trees' # trees)

\* Whether the collection holds an entry for the typed key k.
Holds(k) == EncodeBytes(k) \in DOMAIN trees[PlainTree]

\* C12: remove on an absent key.  remove(k) on a collection with no entry
\* for k leaves the collection as it was and returns Ok(none); the only
\* error it can return is the engine's own failure.  remove(k) on a present
\* key returns a view that decodes to the stored value, and afterwards
\* get(k) is none and another remove(k) returns Ok(none) and changes nothing.
C12_RemoveAbsent ==
    [][RemoveStep =>
          LET k == last'.key
              after == trees'[PlainTree] IN
          /\ ~Holds(k) =>
                /\ trees' = trees
                /\ last'.ret.ok => last'.ret.val = None
                /\ ~last'.ret.ok => last'.ret.err = "SledError"
          /\ (Holds(k) /\ last'.ret.ok) =>
                /\ ValueValue(last'.ret.val) = Shadow(k)
                /\ ValueValue(last'.ret.val) # None
                /\ TreeGetOp(after, k, FALSE).ret = OkR(None)
                /\ TreeRemoveOp(after, k, FALSE) = [tree |-> after, ret |-> OkR(None)]
          /\ (Holds(k) /\ ~last'.ret.ok) => trees' = trees]_vars

\* remove(k) returned Ok(none) on a collection that holds another key and
\* not k.
C12_Witness ==
    /\ last # None /\ last.op = "remove" /\ last.ret = OkR(None)
    /\ last.key = KeyUniverse[1]
    /\ Decoded(trees[PlainTree]) = {<<OkR(KeyUniverse[2]), OkR(ValUniverse[1])>>}

\* C16: buffer-strategy invariance.  Whether an encoding stayed in the
\* inline buffer or spilled to the heap, the engine holds exactly the
\* codec's encoding of every key and value stored; so for keys and values
\* encoded one byte below, at and one byte above the inline capacity a get
\* decodes to the value last inserted, and the value a call returns does not
\* depend on the path taken.
C16_BufferInvariance ==
    /\ DOMAIN trees[PlainTree] = {EncodeBytes(k) : k \in DOMAIN serial[PlainTree]}
    /\ \A k \in DOMAIN serial[PlainTree] :
          /\ trees[PlainTree][EncodeBytes(k)] = EncodeBytes(serial[PlainTree][k])
          /\ IVecFrom(encode(k).val) = AsRef(encode(k).val)
    /\ \A k \in BufKeys : GetDecoded(k) = Shadow(k)
    /\ (last # None /\ last.op = "get" /\ last.ret.ok) =>
          ValueValue(last.ret.val) = Shadow(last.key)

\* The collection holds keys encoded in 15, 16 and 17 bytes with values
\* encoded in 17, 16 and 15 bytes, and a get of the key that spilled has
\* returned its value, which did not.
C16_Witness ==
    /\ last # None /\ last.op = "get" /\ last.ret.ok
    /\ encode(last.key).val.spilled
    /\ last.ret.val # None /\ Len(last.ret.val[1]) = INLINE_CAP - 1
    /\ {<<Len(k), Len(trees[PlainTree][k])>> : k \in DOMAIN trees[PlainTree]}
           = {<<INLINE_CAP - 1, INLINE_CAP + 1>>, <<INLINE_CAP, INLINE_CAP>>,
              <<INLINE_CAP + 1, INLINE_CAP - 1>>}
    /\ \E k \in DOMAIN trees[PlainTree] : ~Buffer(k).spilled /\ Buffer(trees[PlainTree][k]).spilled

\* The step of a pop_min or pop_max call.
PopStep ==
    /\ last' # None
    /\ last'.op \in {"pop_min", "pop_max"}
    /\ (last' # last \/ trees' # trees)

\* C13: pop_min / pop_max remove and return the extreme entry.  A pop on an
\* empty collection returns none; otherwise it returns the stored entry
\* with the smallest (pop_max: largest) encoded key, which decodes to the
\* key and value stored, and exactly that entry is gone afterwards; a
\* failed pop changes nothing.  Among the pops since an entry was last
\* stored, whoever made them, no key was returned twice and none is still
\* in the collection.
C13_PopExtreme ==
    /\ [](/\ \A i, j \in 1..Len(popped) :
                i # j => popped[i].kv.raw_key # popped[j].kv.raw_key
          /\ \A i \in 1..Len(popped) : popped[i].kv.raw_key \notin DOMAIN trees[PlainTree])
    /\ [][PopStep =>
            LET t == trees[PlainTree] IN
            IF ~last'.ret.ok THEN trees' = trees
            ELSE IF DOMAIN t = {} THEN last'.ret.val = None /\ trees' = trees
            ELSE /\ last'.ret.val # None
                 /\ LET kv == last'.ret.val[1] IN
                    /\ kv.raw_key \in DOMAIN t
                    /\ kv.raw_value = t[kv.raw_key]
                    /\ last'.op = "pop_min" => \A m \in DOMAIN t : LexLeq(kv.raw_key, m)
                    /\ last'.op = "pop_max" => \A m \in DOMAIN t : LexLeq(m, kv.raw_key)
                    /\ trees' = [trees EXCEPT ![PlainTree] = RawRemove(t, kv.raw_key)]
                    /\ KeyValueKey(kv).ok
                    /\ KeyValueValue(kv) = OkR(serial[PlainTree][KeyValueKey(kv).val])]_vars

\* The collection held "Adam", "Jane" and "Paul"; caller 1 popped "Adam"
\* from the low end, caller 2 popped "Paul" from the high end, and "Jane"
\* is what is left.
C13_Witness ==
    /\ Len(popped) = 2
    /\ popped[1].caller = 1 /\ KeyValueKey(popped[1].kv) = OkR(Str(Adam))
    /\ popped[2].caller = 2 /\ KeyValueKey(popped[2].kv) = OkR(Str(Paul))
    /\ last.op = "pop_max"
    /\ {kv[1] : kv \in Decoded(trees[PlainTree])} = {OkR(Str(Jane))}

\* C17: key projection of an entry.  For every entry pop_min / pop_max
\* returned as a KeyValue kv, kv.into_key().key() is kv.key(),
\* kv.into_value().value() is kv.value(), and the Key view into_key gives
\* holds the key bytes of the entry.
C17_KeyProjection ==
    \A i \in 1..Len(popped) :
        LET kv == popped[i].kv IN
        /\ KeyKey(KeyValueIntoKey(kv)) = KeyValueKey(kv)
        /\ ValueOfView(KeyValueIntoValue(kv)) = KeyValueValue(kv)
        /\ KeyValueIntoKey(kv).raw = kv.raw_key

\* The step of a Batch::insert or Batch::remove call.
StageStep ==
    /\ last' # None
    /\ last'.op \in {"batch_insert", "batch_remove"}
    /\ (last' # last \/ batch' # batch)

\* C11: staging has no storage effect.  A Batch::insert or Batch::remove
\* call, whether it succeeds or fails to encode, leaves every collection as
\* it was: a success stages one more operation, a failure stages nothing;
\* the collections change on an apply_batch step only, so what a batch
\* holds that was never applied is nowhere in them.
C11_StagingFrame ==
    [][/\ StageStep =>
              /\ trees' = trees
              /\ last'.ret.ok => (Len(batch') = Len(batch) + 1 /\ SubSeq(batch', 1, Len(batch)) = batch)
              /\ ~last'.ret.ok => batch' = batch
       /\ trees' # trees => (ApplyStep /\ last'.ret.ok /\ batch # <<>>)]_vars

\* A batch holds an insert for a key the collection holds with another
\* value; a further staging call failed to encode; the collection is as it
\* was before the batch was begun.
C11_Witness ==
    /\ last # None /\ last.op = "batch_remove" /\ ~last.ret.ok
    /\ Len(batch) = 1 /\ batch[1].op = "insert"
    /\ batch[1].key = KeyUniverse[1] /\ batch[1].val = ValUniverse[2]
    /\ Decoded(trees[PlainTree]) = {<<OkR(KeyUniverse[1]), OkR(ValUniverse[1])>>}

---------------------------------------------------------------------------
\* Properties of iteration.

\* The entries an iterator has yielded from one end (or, with dir "any",
\* from both), in the order it yielded them, without the failed steps.
YieldedFrom(dir) ==
    SelectSeq(iter.yielded, LAMBDA y : y.item.ok /\ (dir = "any" \/ y.dir = dir))

RawKeyAt(Y, i) == Y[i].rawk

\* No call has written to the collection since the iterator was made.
Quiescent == last # None /\ last.op \in {"iter", "range", "scan_prefix"}

\* What a yielded item decodes to: the key of an entry or of a key view,
\* the value of an entry or of a value view.
YieldedKey(y) == IF y.proj = "entry" THEN KeyValueKey(y.item.val) ELSE KeyKey(y.item.val)

YieldedValue(y) ==
    IF y.proj = "entry" THEN KeyValueValue(y.item.val) ELSE ValueOfView(y.item.val)

\* C7: iteration order.  Stepping the iterator made by iter() forward, as
\* entries or through keys() or values(), yields entries in strictly
\* ascending order of the encoded key, so none twice; each is a stored
\* entry, its key decoding to the stored key and its value to the value
\* inserted under that key; and once a purely forward iteration reports the
\* end, every stored key has been yielded.
C7_IterationOrder ==
    (iter # None /\ last # None /\ last.op = "iter") =>
        LET F == YieldedFrom("front") IN
        /\ \A i \in 1..(Len(F) - 1) : LexLess(RawKeyAt(F, i), RawKeyAt(F, i + 1))
        /\ \A i \in 1..Len(F) :
              LET k == decode(RawKeyAt(F, i), "str") IN
              /\ k.ok
              /\ k.val \in DOMAIN serial[PlainTree]
              /\ F[i].proj # "values" => YieldedKey(F[i]) = k
              /\ F[i].proj # "keys" => YieldedValue(F[i]) = OkR(serial[PlainTree][k.val])
        /\ (iter.frontNone /\ YieldedFrom("back") = <<>>) =>
              {decode(RawKeyAt(F, i), "str").val : i \in 1..Len(F)} = DOMAIN serial[PlainTree]

\* The collection holds "Paul", "Adam" and "Jane"; a forward iteration
\* yielded the entries of "Adam", "Jane", "Paul" and then reported the end.
C7_Witness ==
    /\ iter # None /\ last # None /\ last.op = "iter" /\ iter.frontNone
    /\ LET F == YieldedFrom("front") IN
       /\ Len(F) = 3 /\ Len(iter.yielded) = 3
       /\ \A i \in 1..3 : F[i].proj = "entry"
       /\ KeyValueKey(F[1].item.val) = OkR(Str(Adam))
       /\ KeyValueKey(F[2].item.val) = OkR(Str(Jane))
       /\ KeyValueKey(F[3].item.val) = OkR(Str(Paul))
       /\ KeyValueValue(F[1].item.val) = OkR(ValUniverse[1])
       /\ KeyValueValue(F[2].item.val) = OkR(ValUniverse[2])

\* The engine's bound a typed bound of range stands for: the same kind of
\* bound at the encoded key, and no bound for an unbounded side.
IntendedBound(b) ==
    IF b.kind = "Unbounded" THEN Unbounded
    ELSE IF b.kind = "Included" THEN Included(EncodeBytes(b.key))
    ELSE Excluded(EncodeBytes(b.key))

\* C8: range bounds.  The iterator range(start, end) returns covers exactly
\* the stored entries whose encoded key lies within the encoded bounds, an
\* unbounded side being unbounded: range(..) covers what iter() covers,
\* range(a..) every key at or above encode(a), range(..b) every key below
\* encode(b).
C8_RangeBounds ==
    (iter # None /\ last.op = "range") =>
        iter.span = InRange(trees[PlainTree], IntendedBound(last.key), IntendedBound(last.val))

\* C18: bound kinds in range.  With keys a <= b stored, the iterator of
\* range(a..=b) covers the entry with key b and that of range(a..b) does
\* not; an excluded start a is not covered; and range(a..=a) covers
\* exactly the entry with key a when it is stored.
C18_BoundKinds ==
    (iter # None /\ last.op = "range") =>
        LET sb == last.key
            eb == last.val
            T == DOMAIN trees[PlainTree] IN
        /\ (/\ sb.kind = "Included" /\ eb.kind = "Included"
            /\ EncodeBytes(sb.key) \in T /\ EncodeBytes(eb.key) \in T
            /\ LexLeq(EncodeBytes(sb.key), EncodeBytes(eb.key)))
               => EncodeBytes(eb.key) \in iter.span
        /\ eb.kind = "Excluded" => EncodeBytes(eb.key) \notin iter.span
        /\ sb.kind = "Excluded" => EncodeBytes(sb.key) \notin iter.span
        /\ (sb.kind = "Included" /\ eb = sb /\ EncodeBytes(sb.key) \in T)
               => iter.span = {EncodeBytes(sb.key)}

\* Whether the byte string p is a prefix of the byte string k.
IsPrefix(p, k) == Len(p) <= Len(k) /\ SubSeq(k, 1, Len(p)) = p

\* C19: prefix scan.  scan_prefix(p) fails, with an encode error, exactly
\* when p does not encode; otherwise its iterator covers exactly the stored
\* entries whose encoded key begins with the codec's encoding of p, length
\* prefix included, yields them forward in strictly ascending order of the
\* encoded key, and has yielded all of them when a purely forward iteration
\* reports the end.
C19_PrefixScan ==
    (last # None /\ last.op = "scan_prefix") =>
        /\ last.ret.ok <=> Encodable(last.key)
        /\ ~last.ret.ok => (last.ret.err = "EncodeError" /\ iter = None)
        /\ iter # None =>
              LET F == YieldedFrom("front")
                  P == {k \in DOMAIN trees[PlainTree] : IsPrefix(EncodeBytes(last.key), k)} IN
              /\ iter.span = P
              /\ \A i \in 1..(Len(F) - 1) : LexLess(RawKeyAt(F, i), RawKeyAt(F, i + 1))
              /\ \A i \in 1..Len(F) : RawKeyAt(F, i) \in P
              /\ (iter.frontNone /\ YieldedFrom("back") = <<>>) =>
                    {RawKeyAt(F, i) : i \in 1..Len(F)} = P

\* The collection holds "Adam", "Jane" and "Paul"; scan_prefix("Jane")
\* yielded the entry of "Jane" and then reported the end.
C19_Witness ==
    /\ last # None /\ last.op = "scan_prefix" /\ last.key = Str(Jane)
    /\ iter # None /\ iter.frontNone
    /\ Cardinality(DOMAIN trees[PlainTree]) = 3
    /\ Len(iter.yielded) = 1 /\ iter.yielded[1].dir = "front" /\ iter.yielded[1].item.ok
    /\ iter.yielded[1].proj = "entry"
    /\ KeyValueKey(iter.yielded[1].item.val) = OkR(Str(Jane))

\* C9: double-ended exhaustion.  Whatever the interleaving of front and back
\* steps, no entry is yielded twice, front steps ascend and back steps
\* descend; and while no call writes to the collection, every entry yielded
\* is one the iterator covers, and once either end reports exhaustion
\* exactly the covered entries have been yielded.
C9_DoubleEnded ==
    iter # None =>
        LET Y == YieldedFrom("any")
            F == YieldedFrom("front")
            B == YieldedFrom("back") IN
        /\ \A i, j \in 1..Len(Y) : i # j => RawKeyAt(Y, i) # RawKeyAt(Y, j)
        /\ \A i \in 1..(Len(F) - 1) : LexLess(RawKeyAt(F, i), RawKeyAt(F, i + 1))
        /\ \A i \in 1..(Len(B) - 1) : LexLess(RawKeyAt(B, i + 1), RawKeyAt(B, i))
        /\ Quiescent =>
              /\ \A i \in 1..Len(Y) : RawKeyAt(Y, i) \in iter.span
              /\ (iter.frontNone \/ iter.backNone) =>
                    /\ {RawKeyAt(Y, i) : i \in 1..Len(Y)} = iter.span
                    /\ Len(Y) = Cardinality(iter.span)

\* An iterator over three entries yielded one from the back, one from the
\* front and one more from the back, and then both ends reported exhaustion.
C9_Witness ==
    /\ iter # None /\ Quiescent /\ Cardinality(iter.span) = 3
    /\ iter.frontNone /\ iter.backNone
    /\ Len(iter.yielded) = 3
    /\ iter.yielded[1].dir = "back" /\ iter.yielded[2].dir = "front"
    /\ iter.yielded[3].dir = "back"
    /\ \A i \in 1..3 : iter.yielded[i].item.ok

====
